---- MODULE Spec2Model ----
(***************************************************************************)
(* Model of edz.py: the extended double zepp antenna length calculator     *)
(* (calculate_antenna_lengths) and the module-level report driver.         *)
(*                                                                         *)
(* Python floats are IEEE-754 binary64 values.  They are modelled exactly: *)
(* a positive float is [m, e] with a 53-bit significand m and the value    *)
(* m * 2^e, every arithmetic operation rounds its exact result to nearest, *)
(* ties to even.  Significands exceed the range of the model checker's     *)
(* integers, so they are kept as little-endian sequences of base-2^15      *)
(* limbs.                                                                  *)
(*                                                                         *)
(* Decimal arguments are integers: a band bound or a frequency step n      *)
(* stands for the float literal n/10000 (MHz), a velocity factor or        *)
(* reflector adjustment n for the float literal n/100.                     *)
(***************************************************************************)
EXTENDS Integers, Sequences, FiniteSets, TLC

\* ------------------------------------------------------------------------
\* Natural numbers of arbitrary size: little-endian limb sequences, no
\* leading (most significant) zero limb, zero is << >>.
\* ------------------------------------------------------------------------
Base == 32768

LimbBits == 15

RECURSIVE Pow2(_)
Pow2(k) == IF k = 0 THEN 1 ELSE 2 * Pow2(k - 1)

RECURSIVE BNorm(_)
BNorm(a) ==
    IF a = << >> THEN << >>
    ELSE IF a[Len(a)] = 0 THEN BNorm(SubSeq(a, 1, Len(a) - 1))
    ELSE a

RECURSIVE BFromInt(_)
BFromInt(n) == IF n = 0 THEN << >> ELSE <<n % Base>> \o BFromInt(n \div Base)

RECURSIVE BToInt(_)
BToInt(a) == IF a = << >> THEN 0 ELSE Head(a) + Base * BToInt(Tail(a))

\* -1, 0, 1 as a < b, a = b, a > b (both normalised)
RECURSIVE BCmpFrom(_, _, _)
BCmpFrom(a, b, i) ==
    IF i = 0 THEN 0
    ELSE IF a[i] < b[i] THEN -1
    ELSE IF a[i] > b[i] THEN 1
    ELSE BCmpFrom(a, b, i - 1)

BCmp(a, b) ==
    IF Len(a) < Len(b) THEN -1
    ELSE IF Len(a) > Len(b) THEN 1
    ELSE BCmpFrom(a, b, Len(a))

RECURSIVE BAddC(_, _, _)
BAddC(a, b, c) ==
    IF a = << >> /\ b = << >> THEN (IF c = 0 THEN << >> ELSE <<c>>)
    ELSE LET x == IF a = << >> THEN 0 ELSE Head(a)
             y == IF b = << >> THEN 0 ELSE Head(b)
             s == x + y + c
         IN  <<s % Base>> \o BAddC(IF a = << >> THEN << >> ELSE Tail(a),
                                   IF b = << >> THEN << >> ELSE Tail(b),
                                   s \div Base)

BAdd(a, b) == BAddC(a, b, 0)

\* a - b for a >= b
RECURSIVE BSubC(_, _, _)
BSubC(a, b, c) ==
    IF a = << >> THEN << >>
    ELSE LET y == IF b = << >> THEN 0 ELSE Head(b)
             d == Head(a) - y - c
         IN  <<IF d < 0 THEN d + Base ELSE d>>
             \o BSubC(Tail(a), IF b = << >> THEN << >> ELSE Tail(b),
                      IF d < 0 THEN 1 ELSE 0)

BSub(a, b) == BNorm(BSubC(a, b, 0))

\* a * k for 0 <= k < Base
RECURSIVE BMulSmallC(_, _, _)
BMulSmallC(a, k, c) ==
    IF a = << >> THEN (IF c = 0 THEN << >> ELSE <<c>>)
    ELSE LET p == Head(a) * k + c
         IN  <<p % Base>> \o BMulSmallC(Tail(a), k, p \div Base)

BMulSmall(a, k) == BNorm(BMulSmallC(a, k, 0))

\* r * Base
BShiftLimb(r) == IF r = << >> THEN << >> ELSE <<0>> \o r

RECURSIVE BMul(_, _)
BMul(a, b) ==
    IF b = << >> \/ a = << >> THEN << >>
    ELSE BAdd(BMulSmall(a, Head(b)), BShiftLimb(BMul(a, Tail(b))))

RECURSIVE Zeros(_)
Zeros(n) == IF n = 0 THEN << >> ELSE <<0>> \o Zeros(n - 1)

\* a * 2^k
BShl(a, k) ==
    IF a = << >> THEN << >>
    ELSE Zeros(k \div LimbBits) \o BMulSmall(a, Pow2(k % LimbBits))

\* <<quotient, remainder>> of a by a small d (0 < d < Base), most
\* significant limb first; r is the running remainder
BDivSmallPut(rest, digit) == << rest[1] \o <<digit>>, rest[2] >>

RECURSIVE BDivSmallFrom(_, _, _, _)
BDivSmallFrom(a, d, i, r) ==
    IF i = 0 THEN << << >>, r >>
    ELSE BDivSmallPut(BDivSmallFrom(a, d, i - 1, (r * Base + a[i]) % d),
                      (r * Base + a[i]) \div d)

BDivSmallNorm(qr) == << BNorm(qr[1]), qr[2] >>

BDivSmall(a, d) == BDivSmallNorm(BDivSmallFrom(a, d, Len(a), 0))

\* floor(a / 2^k)
BShr(a, k) ==
    IF k \div LimbBits >= Len(a) THEN << >>
    ELSE BDivSmall(SubSeq(a, k \div LimbBits + 1, Len(a)), Pow2(k % LimbBits))[1]

BTopBits(top) == CHOOSE b \in 1..LimbBits : Pow2(b - 1) <= top /\ top < Pow2(b)

BBitLen(a) ==
    IF a = << >> THEN 0 ELSE (Len(a) - 1) * LimbBits + BTopBits(a[Len(a)])

BIsOdd(a) == a # << >> /\ Head(a) % 2 = 1

BLimb(a, i) == IF i <= Len(a) THEN a[i] ELSE 0

\* Long division by a divisor d whose top limb is at least Base / 2, one
\* quotient limb per step.  The digit estimated from the two leading limbs
\* of the remainder is never too small and is lowered until it fits.
BDigitEstimate(r, d) ==
    IF (BLimb(r, Len(d) + 1) * Base + BLimb(r, Len(d))) \div d[Len(d)] < Base
    THEN (BLimb(r, Len(d) + 1) * Base + BLimb(r, Len(d))) \div d[Len(d)]
    ELSE Base - 1

RECURSIVE BDigitFit(_, _, _)
BDigitFit(r, d, digit) ==
    IF BCmp(BMulSmall(d, digit), r) > 0 THEN BDigitFit(r, d, digit - 1)
    ELSE digit

BPushLimb(q, digit) == IF q = << >> THEN BFromInt(digit) ELSE <<digit>> \o q

\* <<floor(r * Base^n / d), sticky>> for r < d; sticky is TRUE iff the
\* division is inexact
RECURSIVE BDivLimbs(_, _, _, _)
BDivLimbPut(r, d, q, n, digit) ==
    BDivLimbs(BSub(r, BMulSmall(d, digit)), d, BPushLimb(q, digit), n - 1)

BDivLimbs(r, d, q, n) ==
    IF n = 0 THEN << q, r # << >> >>
    ELSE BDivLimbPut(BShiftLimb(r), d, q, n,
                     BDigitFit(BShiftLimb(r), d, BDigitEstimate(BShiftLimb(r), d)))

\* ------------------------------------------------------------------------
\* Python float (IEEE-754 binary64), non-negative finite values.
\* [m |-> significand, e |-> exponent], value m * 2^e, 2^52 <= m < 2^53;
\* zero is [m |-> << >>, e |-> 0].
\* ------------------------------------------------------------------------
Precision == 53

FZero == [m |-> << >>, e |-> 0]

\* Round to nearest, ties to even: the cut-off part rem against half a unit
\* of the kept part q
RoundsUp(rem, half, sticky, q) ==
    BCmp(rem, half) > 0 \/ (BCmp(rem, half) = 0 /\ (sticky \/ BIsOdd(q)))

\* a significand that rounding carried to 2^Precision is renormalised
FCarry(q, e) ==
    IF BBitLen(q) > Precision THEN [m |-> BShr(q, 1), e |-> e + 1]
    ELSE [m |-> q, e |-> e]

FCut(N, q, sh, e, sticky) ==
    FCarry(IF RoundsUp(BSub(N, BShl(q, sh)), BShl(<<1>>, sh - 1), sticky, q)
           THEN BAdd(q, <<1>>) ELSE q,
           e + sh)

FRoundBits(N, e, sticky, L) ==
    IF L <= Precision
    THEN [m |-> BShl(N, Precision - L), e |-> e - (Precision - L)]
    ELSE FCut(N, BShr(N, L - Precision), L - Precision, e, sticky)

\* The float nearest to (N + s) * 2^e, where N is a natural number and s a
\* fraction in (0, 1) iff sticky (then N has more than Precision + 1 bits)
FRound(N, e, sticky) ==
    IF N = << >> THEN FZero ELSE FRoundBits(N, e, sticky, BBitLen(N))

\* int -> float conversion (exact below 2^53)
FFromInt(n) == FRound(BFromInt(n), 0, FALSE)

FRoundQuotient(qr, e) == FRound(qr[1], e, qr[2] # 0)

\* The float nearest to the rational n / d (n > 0, 0 < d < Base): the value
\* of a decimal literal
FFromRat(n, d) == FRoundQuotient(BDivSmall(BShl(BFromInt(n), 75), d), -75)

FMul(x, y) == FRound(BMul(x.m, y.m), x.e + y.e, FALSE)

FRoundLong(qs, e) == FRound(qs[1], e, qs[2])

\* floor(X * Base^4 / D) for significands scaled to fill whole limbs
FDivScaled(X, D, e) ==
    IF BCmp(X, D) >= 0
    THEN FRoundLong(BDivLimbs(BSub(X, D), D, <<1>>, 4), e)
    ELSE FRoundLong(BDivLimbs(X, D, << >>, 4), e)

\* x / y, y # 0
FDiv(x, y) ==
    IF x.m = << >> THEN FZero
    ELSE FDivScaled(BShl(x.m, 7), BShl(y.m, 7), x.e - y.e - 4 * LimbBits)

FAddAt(x, y, e) ==
    FRound(BAdd(BShl(x.m, x.e - e), BShl(y.m, y.e - e)), e, FALSE)

FAdd(x, y) ==
    IF x.m = << >> THEN y
    ELSE IF y.m = << >> THEN x
    ELSE FAddAt(x, y, IF x.e < y.e THEN x.e ELSE y.e)

\* x < y
FLess(x, y) ==
    IF x.m = << >> THEN y.m # << >>
    ELSE IF y.m = << >> THEN FALSE
    ELSE x.e < y.e \/ (x.e = y.e /\ BCmp(x.m, y.m) < 0)

\* int(x): truncation to an integer
FTrunc(x) ==
    IF x.m = << >> THEN 0
    ELSE IF x.e >= 0 THEN BToInt(BShl(x.m, x.e))
    ELSE BToInt(BShr(x.m, -x.e))

PyRoundCut(m, q, sh) ==
    BToInt(q) + (IF RoundsUp(BSub(m, BShl(q, sh)), BShl(<<1>>, sh - 1), FALSE, q)
                 THEN 1 ELSE 0)

\* round(x): nearest integer, ties to even (Python 3 float.__round__)
PyRound(x) ==
    IF x.m = << >> THEN 0
    ELSE IF x.e >= 0 THEN BToInt(BShl(x.m, x.e))
    ELSE PyRoundCut(x.m, BShr(x.m, -x.e), -x.e)

\* ------------------------------------------------------------------------
\* calculate_antenna_lengths: the expressions of the function body
\* ------------------------------------------------------------------------

\* Decimal inputs: a band bound or a step n is the literal n / Scale MHz,
\* a velocity factor or reflector adjustment n the literal n / Percent
Scale == 10000

Percent == 100

Literal(n, d) == IF n = 0 THEN FZero ELSE FFromRat(n, d)

\* int(x * 1000) for the literal x = n / Scale; int() truncates toward zero
RangeArg(n) ==
    IF n >= 0 THEN FTrunc(FMul(Literal(n, Scale), FFromInt(1000)))
    ELSE -FTrunc(FMul(Literal(-n, Scale), FFromInt(1000)))

\* a range that ignores the sign of its step
RangeHasAscending(cur, stop, step) == cur < stop

\* the elements of range(start, stop, step), step # 0, at or after cur
RangeHas(cur, stop, step) == IF step > 0 THEN cur < stop ELSE cur > stop

RangeLen(start, stop, step) ==
    IF step > 0 /\ start < stop THEN (stop - start + step - 1) \div step
    ELSE IF step < 0 /\ start > stop THEN (start - stop - step - 1) \div (-step)
    ELSE 0

\* feet rounded to the nearest foot instead of floored
to_feet_and_inches_rounded(total_inches) ==
    << (total_inches + 6) \div 12, total_inches % 12 >>

\* Round to whole inches
to_feet_and_inches(total_inches) ==
    << total_inches \div 12, total_inches % 12 >>

\* freq_mhz = freq / 1000.0
FreqMHz(f) == FDiv(FFromInt(f), FFromInt(1000))

\* Full wavelength in inches (speed of light in air)
Wavelength(freq_mhz) == FDiv(FFromInt(11811), freq_mhz)

\* Apply velocity factor correction
EffectiveWavelength(wavelength, vf) == FMul(wavelength, vf)

\* (effective_wavelength * 5 / 8) / 12, evaluated left to right
ElementLength(effective_wavelength) ==
    FDiv(FDiv(FMul(effective_wavelength, FFromInt(5)), FFromInt(8)), FFromInt(12))

\* (effective_wavelength * 1 / 8) / 12
StubLength(effective_wavelength) ==
    FDiv(FDiv(FMul(effective_wavelength, FFromInt(1)), FFromInt(8)), FFromInt(12))

\* element_length * reflector_adjustment: the "1 +" left out
ReflectorLengthOfAdjustment(element_length, ra) == FMul(element_length, ra)

\* element_length * (1 + reflector_adjustment)
ReflectorLength(element_length, ra) ==
    FMul(element_length, FAdd(FFromInt(1), ra))

\* the doubling left out
TotalLengthSingle(length) == length

\* Calculate total lengths: length * 2
TotalLength(length) == FMul(length, FFromInt(2))

\* The float locals of one loop iteration for the range element f # 0
LocalsOf(freq_mhz, effective_wavelength, element_length, reflector_length) ==
    [freq_mhz               |-> freq_mhz,
     element_length         |-> element_length,
     stub_length            |-> StubLength(effective_wavelength),
     reflector_length       |-> reflector_length,
     total_antenna_length   |-> TotalLength(element_length),
     total_reflector_length |-> TotalLength(reflector_length)]

LocalsFromElement(freq_mhz, effective_wavelength, element_length, ra) ==
    LocalsOf(freq_mhz, effective_wavelength, element_length,
             ReflectorLength(element_length, ra))

LocalsFromWavelength(freq_mhz, effective_wavelength, ra) ==
    LocalsFromElement(freq_mhz, effective_wavelength,
                      ElementLength(effective_wavelength), ra)

LocalsFromFreq(freq_mhz, ra, vf) ==
    LocalsFromWavelength(freq_mhz,
                         EffectiveWavelength(Wavelength(freq_mhz), vf), ra)

Locals(f, ra, vf) == LocalsFromFreq(FreqMHz(f), ra, vf)

\* round(length * 12)
Inches(length) == PyRound(FMul(length, FFromInt(12)))

\* The dictionary appended for one iteration
RecordOf(band, freq_mhz, element, stub, reflector, total_antenna, total_reflector) ==
    [Band                      |-> band,
     Frequency_MHz             |-> freq_mhz,
     Element_Length_Ft         |-> element[1],
     Element_Length_In         |-> element[2],
     Stub_Length_Ft            |-> stub[1],
     Stub_Length_In            |-> stub[2],
     Reflector_Length_Ft       |-> reflector[1],
     Reflector_Length_In       |-> reflector[2],
     Total_Antenna_Length_Ft   |-> total_antenna[1],
     Total_Antenna_Length_In   |-> total_antenna[2],
     Total_Reflector_Length_Ft |-> total_reflector[1],
     Total_Reflector_Length_In |-> total_reflector[2]]

Record(band, l) ==
    RecordOf(band, l.freq_mhz,
             to_feet_and_inches(Inches(l.element_length)),
             to_feet_and_inches(Inches(l.stub_length)),
             to_feet_and_inches(Inches(l.reflector_length)),
             to_feet_and_inches(Inches(l.total_antenna_length)),
             to_feet_and_inches(Inches(l.total_reflector_length)))

\* ------------------------------------------------------------------------
\* Program state
\* ------------------------------------------------------------------------
VARIABLES
    pc,                   \* position of the function activation
    band_mhz,             \* argument: <<start, end>>, units of 1/Scale MHz
    frequency_step,       \* argument, units of 1/Scale MHz
    reflector_adjustment, \* argument, units of 1/Percent
    velocity_factor,      \* argument, units of 1/Percent
    freq,                 \* the range iterator: next element
    stop,                 \* the range iterator: stop
    step,                 \* the range iterator: step
    locals,               \* float locals of the latest loop iteration
    results,              \* the list being built and returned
    error,                \* the exception that left the function, if any
    bands,                \* module level: the band table, insertion order
    band_index,           \* module level: position of the for loop in bands
    all_results,          \* module level: collected records
    csv_file,             \* rows written by the DictWriter
    history               \* the values returned to a caller making several calls

vars == << pc, band_mhz, frequency_step, reflector_adjustment, velocity_factor,
           freq, stop, step, locals, results, error,
           bands, band_index, all_results, csv_file, history >>

callVars == << band_mhz, frequency_step, reflector_adjustment, velocity_factor >>

moduleVars == << bands, band_index, all_results, csv_file >>

NoLocals == [freq_mhz |-> FZero, element_length |-> FZero, stub_length |-> FZero,
             reflector_length |-> FZero, total_antenna_length |-> FZero,
             total_reflector_length |-> FZero]

\* Define band ranges (in MHz)
BandTable ==
    << << "160m", <<18000, 20000>> >>,
       << "80m",  <<35000, 40000>> >>,
       << "40m",  <<70740, 72850>> >>,
       << "20m",  <<140000, 143500>> >>,
       << "15m",  <<210000, 214500>> >>,
       << "10m",  <<280000, 297000>> >> >>

\* Frequency step (in MHz), and the defaults of the signature
DefaultStep == 100

DefaultReflectorAdjustment == 5

DefaultVelocityFactor == 98

csv_fields ==
    << "Band", "Frequency_MHz", "Element_Length_Ft", "Element_Length_In",
       "Stub_Length_Ft", "Stub_Length_In", "Reflector_Length_Ft",
       "Reflector_Length_In", "Total_Antenna_Length_Ft",
       "Total_Antenna_Length_In", "Total_Reflector_Length_Ft",
       "Total_Reflector_Length_In" >>

\* ------------------------------------------------------------------------
\* calculate_antenna_lengths as steps
\* ------------------------------------------------------------------------

\* Entry with a results list shared between calls (a list that is not
\* created afresh by each call)
CallSharedResults(b, fs, ra, vf) ==
    /\ pc = "idle"
    /\ band_mhz' = b
    /\ frequency_step' = fs
    /\ reflector_adjustment' = ra
    /\ velocity_factor' = vf
    /\ results' = results
    /\ locals' = NoLocals
    /\ freq' = RangeArg(b[1])
    /\ stop' = RangeArg(b[2])
    /\ step' = RangeArg(fs)
    /\ IF step' = 0
       THEN pc' = "raised" /\ error' = "ValueError"
       ELSE pc' = "loop" /\ error' = "none"

\* Entry: bind the arguments, results = [], evaluate the three range()
\* arguments; range() raises ValueError when its step is zero
Call(b, fs, ra, vf) ==
    /\ pc = "idle"
    /\ band_mhz' = b
    /\ frequency_step' = fs
    /\ reflector_adjustment' = ra
    /\ velocity_factor' = vf
    /\ results' = << >>
    /\ locals' = NoLocals
    /\ freq' = RangeArg(b[1])
    /\ stop' = RangeArg(b[2])
    /\ step' = RangeArg(fs)
    /\ IF step' = 0
       THEN pc' = "raised" /\ error' = "ValueError"
       ELSE pc' = "loop" /\ error' = "none"

\* One pass of the for loop; 11811 / 0.0 raises ZeroDivisionError
Iterate ==
    /\ pc = "loop"
    /\ RangeHas(freq, stop, step)
    /\ IF freq = 0
       THEN /\ pc' = "raised"
            /\ error' = "ZeroDivisionError"
            /\ UNCHANGED << locals, results, freq >>
       ELSE /\ locals' = Locals(freq, Literal(reflector_adjustment, Percent),
                                 Literal(velocity_factor, Percent))
            /\ results' = Append(results, Record(band_mhz, locals'))
            /\ freq' = freq + step
            /\ UNCHANGED << pc, error >>
    /\ UNCHANGED << callVars, stop, step, moduleVars, history >>

\* The range is exhausted: return results
Return ==
    /\ pc = "loop"
    /\ ~RangeHas(freq, stop, step)
    /\ pc' = "returned"
    /\ UNCHANGED << callVars, freq, stop, step, locals, results, error,
                    moduleVars, history >>

\* ------------------------------------------------------------------------
\* The module-level script
\* ------------------------------------------------------------------------

\* for band_name, band_range in bands.items():
\*     band_results = calculate_antenna_lengths(band_range, frequency_step=...)
DriverCall ==
    /\ band_index <= Len(bands)
    /\ Call(bands[band_index][2], DefaultStep, DefaultReflectorAdjustment,
            DefaultVelocityFactor)
    /\ UNCHANGED << moduleVars, history >>

\* the band's records put in front of the collected ones
DriverExtendFront ==
    /\ pc = "returned"
    /\ all_results' = results \o all_results
    /\ band_index' = band_index + 1
    /\ pc' = "idle"
    /\ UNCHANGED << callVars, freq, stop, step, locals, results, error,
                    bands, csv_file, history >>

\*     all_results.extend(band_results)
DriverExtend ==
    /\ pc = "returned"
    /\ all_results' = all_results \o results
    /\ band_index' = band_index + 1
    /\ pc' = "idle"
    /\ UNCHANGED << callVars, freq, stop, step, locals, results, error,
                    bands, csv_file, history >>

\* writer.writeheader(); writer.writerows(all_results)
DriverWrite ==
    /\ pc = "idle"
    /\ band_index > Len(bands)
    /\ csv_file' = <<csv_fields>> \o all_results
    /\ pc' = "exit"
    /\ UNCHANGED << callVars, freq, stop, step, locals, results, error,
                    bands, band_index, all_results, history >>

InitCommon ==
    /\ pc = "idle"
    /\ band_mhz = <<0, 0>>
    /\ frequency_step = 0
    /\ reflector_adjustment = 0
    /\ velocity_factor = 0
    /\ freq = 0
    /\ stop = 0
    /\ step = 0
    /\ locals = NoLocals
    /\ results = << >>
    /\ error = "none"
    /\ bands = BandTable
    /\ band_index = 1
    /\ all_results = << >>
    /\ csv_file = << >>
    /\ history = << >>

DriverNext == DriverCall \/ Iterate \/ Return \/ DriverExtend \/ DriverWrite

DriverSpec == InitCommon /\ [][DriverNext]_vars

\* ------------------------------------------------------------------------
\* One call of calculate_antenna_lengths on arbitrary arguments
\* ------------------------------------------------------------------------

\* Band widths reach MaxSpan default steps
MaxSpan == 3

\* Band starts: 0.0005 (below 1 kHz), 1.0, 1.001, 1.8, 1.8001 (off the kHz
\* grid), 3.255 and 4.445 (element length an exact half inch), 14.0
Starts == {5, 10000, 10010, 18000, 18001, 32550, 44450, 140000}

\* Band widths: whole default steps, and 0.011
Widths == {DefaultStep * k : k \in 1..MaxSpan} \cup {110}

\* Steps: -0.01, 0, 0.0005, 0.005, 0.01
Steps == {-100, 0, 5, 50, 100}

SamplingInputs ==
    { << <<s, s + w>>, fs, DefaultReflectorAdjustment, DefaultVelocityFactor >> :
        s \in Starts, w \in Widths, fs \in Steps }

\* a negative step above -0.001
SmallNegativeStepInputs ==
    { << <<18000, 18000 + w>>, -5, DefaultReflectorAdjustment,
         DefaultVelocityFactor >> : w \in Widths }

PhysicsInputs ==
    { << <<s, s + DefaultStep>>, DefaultStep, ra, vf >> :
        s \in Starts, ra \in {0, 5, 100}, vf \in {66, 98, 100} }

Inputs == SamplingInputs \cup SmallNegativeStepInputs \cup PhysicsInputs

CallAny ==
    /\ \E a \in Inputs : Call(a[1], a[2], a[3], a[4])
    /\ UNCHANGED << moduleVars, history >>

Next == CallAny \/ Iterate \/ Return

Spec == InitCommon /\ [][Next]_vars

\* ------------------------------------------------------------------------
\* A caller making several calls and keeping every returned list
\* ------------------------------------------------------------------------
MaxCalls == 3

PureInputs ==
    { << <<18000, 18300>>, 100, 5, 98 >>,
      << <<44450, 44650>>, 100, 0, 98 >>,
      << <<140000, 140100>>, 50, 5, 100 >> }

Args == << band_mhz, frequency_step, reflector_adjustment, velocity_factor >>

PureCall ==
    /\ Len(history) < MaxCalls
    /\ \E a \in PureInputs : Call(a[1], a[2], a[3], a[4])
    /\ UNCHANGED << moduleVars, history >>

\* the caller binds the returned list
Collect ==
    /\ pc = "returned"
    /\ history' = Append(history, [args |-> Args, value |-> results])
    /\ pc' = "idle"
    /\ UNCHANGED << callVars, freq, stop, step, locals, results, error,
                    moduleVars >>

PureNext == PureCall \/ Iterate \/ Return \/ Collect

PureSpec == InitCommon /\ [][PureNext]_vars

\* ------------------------------------------------------------------------
\* Reference quantities for the properties: exact rational arithmetic
\* ------------------------------------------------------------------------

\* The range element that produced results[i] (the iterator has advanced
\* once per record)
FreqOf(i) == freq - (Len(results) - i + 1) * step

\* A length in inches at f kHz is exactly Num / (16 * f):
\* 11811 / (f / 1000) * (vf / 100) * 5 / 8 = 11811 * vf * 100 / (16 * f)
ElementNum == 11811 * velocity_factor * 100

StubNum == 11811 * velocity_factor * 20

ReflectorNum == 11811 * velocity_factor * (100 + reflector_adjustment)

TotalAntennaNum == 2 * ElementNum

TotalReflectorNum == 2 * ReflectorNum

\* t is an integer nearest to num / den
IsNearest(t, num, den) ==
    IF 2 * (num % den) < den THEN t = num \div den
    ELSE IF 2 * (num % den) > den THEN t = num \div den + 1
    ELSE t \in {num \div den, num \div den + 1}

\* num / den rounded to the nearest integer, ties to even
RoundHalfEven(num, den) ==
    IF 2 * (num % den) < den THEN num \div den
    ELSE IF 2 * (num % den) > den THEN num \div den + 1
    ELSE IF (num \div den) % 2 = 0 THEN num \div den
    ELSE num \div den + 1

\* num / den rounded to the nearest integer, ties away from zero
RoundHalfAway(num, den) ==
    IF 2 * (num % den) < den THEN num \div den ELSE num \div den + 1

CeilDiv(a, b) == (a + b - 1) \div b

\* exactly twice a float
Twice(x) == IF x.m = << >> THEN x ELSE [m |-> x.m, e |-> x.e + 1]

ElementIn(r) == 12 * r.Element_Length_Ft + r.Element_Length_In

StubIn(r) == 12 * r.Stub_Length_Ft + r.Stub_Length_In

ReflectorIn(r) == 12 * r.Reflector_Length_Ft + r.Reflector_Length_In

TotalAntennaIn(r) == 12 * r.Total_Antenna_Length_Ft + r.Total_Antenna_Length_In

TotalReflectorIn(r) == 12 * r.Total_Reflector_Length_Ft + r.Total_Reflector_Length_In

ValidBand == 0 < band_mhz[1] /\ band_mhz[1] < band_mhz[2]

Called == pc \in {"loop", "returned", "raised"}

\* ------------------------------------------------------------------------
\* Properties
\* ------------------------------------------------------------------------

\* C1: for a valid band and the default step 0.01 the number of records
\* returned is ceil((endMHz - startMHz) / frequencyStep).
C1_SampleCount ==
    (pc = "returned" /\ ValidBand /\ frequency_step = DefaultStep)
        => Len(results) = CeilDiv(band_mhz[2] - band_mhz[1], frequency_step)

\* C2: for startMHz < endMHz and a positive step the samples are exactly
\* startMHz + k * frequencyStep for the k with a value below endMHz: record i
\* holds the float of startMHz + (i - 1) * frequencyStep, which is below
\* endMHz, and the returned sequence has all of them.
C2_SampleSet ==
    (pc \in {"loop", "returned"} /\ band_mhz[1] < band_mhz[2] /\ frequency_step > 0)
        => /\ \A i \in DOMAIN results :
                /\ band_mhz[1] + (i - 1) * frequency_step < band_mhz[2]
                /\ results[i].Frequency_MHz =
                       Literal(band_mhz[1] + (i - 1) * frequency_step, Scale)
           /\ pc = "returned" =>
                Len(results) = CeilDiv(band_mhz[2] - band_mhz[1], frequency_step)

\* C3: on well-formed arguments (0 < startMHz < endMHz, frequencyStep > 0,
\* reflectorAdjustment >= 0, 0 < velocityFactor <= 1) the function never
\* raises.
C3_NoError ==
    (Called /\ ValidBand /\ frequency_step > 0 /\ reflector_adjustment >= 0
        /\ velocity_factor > 0 /\ velocity_factor <= Percent)
        => pc # "raised"

FeetInchesOk(ft, in, num, f) ==
    /\ ft >= 0
    /\ in >= 0
    /\ in < 12
    /\ ft = (12 * ft + in) \div 12
    /\ in = (12 * ft + in) % 12
    /\ IsNearest(12 * ft + in, num, 16 * f)

\* C4: in every record each of the five (feet, inches) pairs has feet >= 0,
\* 0 <= inches < 12, feet = floor(totalInches / 12), inches = totalInches
\* mod 12, where totalInches = 12 * feet + inches is the length rounded to
\* the nearest inch: an integer nearest to the exact length, and for the
\* latest record the value round(length * 12) of the float local.
C4_FeetAndInches ==
    /\ \A i \in DOMAIN results :
        /\ FeetInchesOk(results[i].Element_Length_Ft, results[i].Element_Length_In,
                        ElementNum, FreqOf(i))
        /\ FeetInchesOk(results[i].Stub_Length_Ft, results[i].Stub_Length_In,
                        StubNum, FreqOf(i))
        /\ FeetInchesOk(results[i].Reflector_Length_Ft, results[i].Reflector_Length_In,
                        ReflectorNum, FreqOf(i))
        /\ FeetInchesOk(results[i].Total_Antenna_Length_Ft,
                        results[i].Total_Antenna_Length_In, TotalAntennaNum, FreqOf(i))
        /\ FeetInchesOk(results[i].Total_Reflector_Length_Ft,
                        results[i].Total_Reflector_Length_In, TotalReflectorNum,
                        FreqOf(i))
    /\ results # << >> =>
        /\ ElementIn(results[Len(results)]) = Inches(locals.element_length)
        /\ StubIn(results[Len(results)]) = Inches(locals.stub_length)
        /\ ReflectorIn(results[Len(results)]) = Inches(locals.reflector_length)
        /\ TotalAntennaIn(results[Len(results)]) = Inches(locals.total_antenna_length)
        /\ TotalReflectorIn(results[Len(results)])
               = Inches(locals.total_reflector_length)

\* a record with whole feet and a remainder of inches, at the frequency
\* 4.445 MHz where the element length is an exact half inch
C4_Witness ==
    /\ pc = "returned"
    /\ \E i \in DOMAIN results :
        /\ FreqOf(i) = 4445
        /\ results[i].Element_Length_Ft > 0
        /\ results[i].Element_Length_In > 0
        /\ results[i].Total_Reflector_Length_In > 0

\* C5: in every record the total antenna length in inches is the rounding
\* of exactly twice the unrounded element length in inches, and differs
\* from twice the record's rounded element length by at most 1 inch.
C5_TotalIsTwiceElement ==
    /\ \A i \in DOMAIN results :
        /\ TotalAntennaIn(results[i]) - 2 * ElementIn(results[i]) <= 1
        /\ 2 * ElementIn(results[i]) - TotalAntennaIn(results[i]) <= 1
    /\ results # << >> =>
        TotalAntennaIn(results[Len(results)])
            = PyRound(Twice(FMul(locals.element_length, FFromInt(12))))

\* a record whose total antenna length is not twice its rounded element
\* length
C5_Witness ==
    \E i \in DOMAIN results :
        TotalAntennaIn(results[i]) # 2 * ElementIn(results[i])

\* C6: the element length in inches of every record equals
\* round((11811 / f) * velocityFactor * 5/8) for its frequency f, with round
\* taking an exact half to the even neighbour or away from zero; for band
\* (14.0, 14.35) with the default arguments the first record has
\* Frequency_MHz = 14.0, Element_Length_Ft = 43, Element_Length_In = 1.
C6_ElementFormula ==
    /\ \A i \in DOMAIN results :
        \/ ElementIn(results[i]) = RoundHalfEven(ElementNum, 16 * FreqOf(i))
        \/ ElementIn(results[i]) = RoundHalfAway(ElementNum, 16 * FreqOf(i))
    /\ (results # << >> /\ band_mhz = <<140000, 143500>>
            /\ frequency_step = DefaultStep
            /\ reflector_adjustment = DefaultReflectorAdjustment
            /\ velocity_factor = DefaultVelocityFactor)
        => /\ results[1].Frequency_MHz = Literal(140000, Scale)
           /\ results[1].Element_Length_Ft = 43
           /\ results[1].Element_Length_In = 1

\* The position of a band label in the band table
BandPos(label) == CHOOSE k \in DOMAIN bands : bands[k][2] = label

BandThenFrequency(seq) ==
    \A i \in 1..(Len(seq) - 1) :
        \/ BandPos(seq[i].Band) < BandPos(seq[i + 1].Band)
        \/ /\ seq[i].Band = seq[i + 1].Band
           /\ FLess(seq[i].Frequency_MHz, seq[i + 1].Frequency_MHz)

RecordsOfBand(seq, k) == { i \in DOMAIN seq : seq[i].Band = bands[k][2] }

\* C7: the output is the concatenation of the per-band record sequences in
\* the order of the band table (160m, 80m, 40m, 20m, 15m, 10m), ascending in
\* frequency within a band: the collected records are always ordered by
\* band position, then frequency; every band processed so far has all its
\* samples there; the rows written after the header are these records.
C7_OutputOrder ==
    /\ BandThenFrequency(all_results)
    /\ \A k \in DOMAIN bands :
        Cardinality(RecordsOfBand(all_results, k))
            = IF k < band_index
              THEN RangeLen(RangeArg(bands[k][2][1]), RangeArg(bands[k][2][2]),
                            RangeArg(DefaultStep))
              ELSE 0
    /\ pc = "exit" => (Head(csv_file) = csv_fields /\ Tail(csv_file) = all_results)

\* the file is written with records of every band
C7_Witness ==
    /\ pc = "exit"
    /\ \A k \in DOMAIN bands : RecordsOfBand(Tail(csv_file), k) # {}

\* C8 (as claimed): with startMHz < endMHz and frequencyStep <= 0 the
\* function returns an empty sequence or does not terminate; it neither
\* raises nor returns records.
C8_EmptyOrNonTerminating ==
    (Called /\ band_mhz[1] < band_mhz[2] /\ frequency_step <= 0)
        => (pc # "raised" /\ results = << >>)

\* C8 (amended): with startMHz < endMHz and frequencyStep <= 0 the function
\* raises ValueError when int(frequencyStep * 1000) is 0 and otherwise
\* returns an empty sequence; the loop body never runs, so it terminates and
\* no record is produced.
C8_EmptyOrValueError ==
    (Called /\ band_mhz[1] < band_mhz[2] /\ frequency_step <= 0)
        => /\ results = << >>
           /\ ~(pc = "loop" /\ RangeHas(freq, stop, step))
           /\ pc = "raised" <=> RangeArg(frequency_step) = 0
           /\ pc = "raised" => error = "ValueError"

\* a zero step has raised ValueError
C8_Witness ==
    /\ pc = "raised"
    /\ error = "ValueError"
    /\ band_mhz[1] < band_mhz[2]
    /\ frequency_step = 0

\* C9: two calls with identical arguments return identical record
\* sequences whatever calls were made in between; no step of a call changes
\* the band table or the other module-level state, nor a list returned
\* earlier.
C9_Pure ==
    /\ [](\A i, j \in DOMAIN history :
            history[i].args = history[j].args => history[i].value = history[j].value)
    /\ [][ /\ bands' = bands
           /\ band_index' = band_index
           /\ all_results' = all_results
           /\ csv_file' = csv_file
           /\ \A i \in DOMAIN history : history'[i] = history[i] ]_vars

\* the same arguments were used for the first and the third call, others
\* in between, and records were returned
C9_Witness ==
    /\ Len(history) = 3
    /\ history[1].args = history[3].args
    /\ history[2].args # history[1].args
    /\ history[1].value # << >>
    /\ history[2].value # << >>

\* C10: in every record the rounded lengths keep the order of the
\* unrounded ones: stub <= element <= reflector and total antenna <= total
\* reflector, in inches.
C10_RoundedOrder ==
    \A i \in DOMAIN results :
        /\ StubIn(results[i]) <= ElementIn(results[i])
        /\ ElementIn(results[i]) <= ReflectorIn(results[i])
        /\ TotalAntennaIn(results[i]) <= TotalReflectorIn(results[i])

\* a record with no reflector adjustment, at a frequency where the element
\* length is an exact half inch: element and reflector round alike
C10_Witness ==
    /\ reflector_adjustment = 0
    /\ \E i \in DOMAIN results :
        /\ 2 * (ElementNum % (16 * FreqOf(i))) = 16 * FreqOf(i)
        /\ ElementIn(results[i]) = ReflectorIn(results[i])
        /\ StubIn(results[i]) < ElementIn(results[i])

====
